---- MODULE Spec2Model ----
(***************************************************************************)
(* Model of the Go context-based logger (package logger).                  *)
(*                                                                         *)
(* Go maps and *LogContext values are references, so the model keeps an    *)
(* explicit heap: tag maps, metadata maps and LogContext objects are named *)
(* by addresses (positive numbers; 0 is nil), and an object no variable of *)
(* the program reaches any more is collected.  A context.Context is an     *)
(* immutable chain of (key, value) pairs, the innermost pair last.         *)
(***************************************************************************)
EXTENDS Integers, Sequences, FiniteSets, TLC

\* ------------------------------------------------------------------ bounds
\* Longest variadic argument list of WithTags / WithoutTags / WithoutMetadata.
MaxArgs == 2
\* Deepest nesting of WithLogContext calls in one goroutine.
MaxDepth == 2
\* Most lines written to standard output.
MaxOut == 1
\* Most lines written by the program that only logs.
MaxLines == 3

\* ------------------------------------------------------------- input sets
TagNames == {"a", "b", "c"}
MetaKeys == {"k1", "k2"}
MetaVals == {"v1", "v2"}
Categories == {"", "api"}
SessionIDs == {"", "req-1"}

\* The nil pointer / nil map.
Nil == 0

\* ------------------------------------------------------------- state
VARIABLES
    heap,        \* the maps and LogContext objects in use
    cur,         \* the program's LogContext variable: the receiver of its calls (Nil at first)
    res,         \* the LogContext the last call returned (Nil at first)
    callerTags,  \* the tag map the caller gave to NewLogContext and still holds (or Nil)
    callerMeta,  \* the metadata map the caller gave to NewLogContext and still holds (or Nil)
    op,          \* the call that produced this state
    stack,       \* per goroutine, its call stack: the frames' ctx and bound logContext
    stdout,      \* what was written to standard output: JSON objects and newlines
    stderr,      \* what was written to standard error
    pending,     \* per goroutine, the Write calls its log call has still to make,
                 \* and the log calls it has made
    panicked     \* TRUE once a goroutine panicked (the process is gone)

vars == <<heap, cur, res, callerTags, callerMeta, op, stack, stdout, stderr, pending, panicked>>

\* ------------------------------------------------------------- Go maps
\* A Go map is a function whose domain is the set of keys present.
EmptyMap == [k \in {} |-> TRUE]

\* m[k] = v
MapSet(m, k, v) == [x \in (DOMAIN m) \cup {k} |-> IF x = k THEN v ELSE m[x]]

\* delete(m, k): a no-op when k is absent
MapDelete(m, k) == [x \in (DOMAIN m) \ {k} |-> m[x]]

\* for k, v := range src { dst[k] = v }
RECURSIVE MapCopyInto(_, _)
MapCopyInto(dst, src) ==
    IF DOMAIN src = {} THEN dst
    ELSE LET k == CHOOSE x \in DOMAIN src : TRUE
         IN  MapCopyInto(MapSet(dst, k, src[k]), MapDelete(src, k))

\* for _, k := range keys { m[k] = v }
RECURSIVE MapSetAll(_, _, _)
MapSetAll(m, keys, v) ==
    IF keys = <<>> THEN m
    ELSE MapSetAll(MapSet(m, Head(keys), v), Tail(keys), v)

\* for _, k := range keys { delete(m, k) }
RECURSIVE MapDeleteAll(_, _)
MapDeleteAll(m, keys) ==
    IF keys = <<>> THEN m
    ELSE MapDeleteAll(MapDelete(m, Head(keys)), Tail(keys))

\* ------------------------------------------------------------- the heap
\* tags: the map[string]bool objects, meta: the map[string]string objects,
\* lc: the LogContext objects; an object's address is its index.  An lc
\* entry is a LogContextData whose Tags and Metadata fields are addresses
\* into tags and meta.
EmptyHeap == [tags |-> <<>>, meta |-> <<>>, lc |-> <<>>]

\* make(map[...]...) for tags / metadata: the heap after it, and the address.
MakeTags(h, m) == [heap |-> [h EXCEPT !.tags = Append(@, m)], ret |-> Len(h.tags) + 1]
MakeMeta(h, m) == [heap |-> [h EXCEPT !.meta = Append(@, m)], ret |-> Len(h.meta) + 1]

\* &LogContext{data: data}
NewObject(h, data) ==
    [heap |-> [h EXCEPT !.lc = Append(@, data)], ret |-> Len(h.lc) + 1]

\* The distinct non-nil addresses of a sequence of references, in order of
\* first occurrence.
RECURSIVE Distinct(_, _)
Distinct(refs, seen) ==
    IF refs = <<>> THEN seen
    ELSE IF Head(refs) = 0 \/ \E i \in 1..Len(seen) : seen[i] = Head(refs)
         THEN Distinct(Tail(refs), seen)
         ELSE Distinct(Tail(refs), Append(seen, Head(refs)))

\* Where the collector moved the object at address a (order: the objects kept).
Moved(order, a) == IF a = 0 THEN 0 ELSE CHOOSE i \in 1..Len(order) : order[i] = a

\* The garbage collector.  It keeps the objects that the program's references
\* reach (lcRoots: its LogContext pointers, tagRoots and metaRoots: the map
\* references it holds besides) and moves them to the lowest addresses, in
\* the order of the roots: addresses are not observable in Go, so states that
\* differ only in them are one state.
Collect(h, lcRoots, tagRoots, metaRoots) ==
    LET lcs == Distinct(lcRoots, <<>>)
        ts  == Distinct([i \in 1..Len(lcs) |-> h.lc[lcs[i]].Tags] \o tagRoots, <<>>)
        ms  == Distinct([i \in 1..Len(lcs) |-> h.lc[lcs[i]].Metadata] \o metaRoots, <<>>)
    IN  [heap |-> [tags |-> [i \in 1..Len(ts) |-> h.tags[ts[i]]],
                   meta |-> [i \in 1..Len(ms) |-> h.meta[ms[i]]],
                   lc   |-> [i \in 1..Len(lcs) |->
                               [h.lc[lcs[i]] EXCEPT !.Tags = Moved(ts, @),
                                                    !.Metadata = Moved(ms, @)]]],
         lc |-> lcs, tags |-> ts, meta |-> ms]

\* The LogContextData struct.
LogContextData(tags, category, metadata, sessionID) ==
    [Tags |-> tags, Category |-> category, Metadata |-> metadata, SessionID |-> sessionID]

\* NewLogContext storing data as it is given, nil maps included.
NewLogContextKeepNil(h, data) == NewObject(h, data)

\* NewLogContext(data): nil collections are replaced by fresh empty maps,
\* non-nil ones are stored as given; the struct is stored in a new LogContext.
NewLogContext(h, data) ==
    LET t  == IF data.Tags = Nil THEN MakeTags(h, EmptyMap) ELSE [heap |-> h, ret |-> data.Tags]
        m  == IF data.Metadata = Nil
              THEN MakeMeta(t.heap, EmptyMap) ELSE [heap |-> t.heap, ret |-> data.Metadata]
    IN  NewObject(m.heap, LogContextData(t.ret, data.Category, m.ret, data.SessionID))

\* copyData leaving the session ID out of the copy.
copyDataNoSessionID(h, lc) ==
    LET d == h.lc[lc]
        t == MakeTags(h, MapCopyInto(EmptyMap, h.tags[d.Tags]))
        m == MakeMeta(t.heap, MapCopyInto(EmptyMap, h.meta[d.Metadata]))
    IN  [heap |-> m.heap, data |-> LogContextData(t.ret, d.Category, m.ret, "")]

\* copyData with the struct copied and the maps not: both contexts share them.
copyDataShallow(h, lc) == [heap |-> h, data |-> h.lc[lc]]

\* lc.copyData(): two fresh maps filled entry by entry from the receiver's,
\* and the two strings copied.
copyData(h, lc) ==
    LET d == h.lc[lc]
        t == MakeTags(h, MapCopyInto(EmptyMap, h.tags[d.Tags]))
        m == MakeMeta(t.heap, MapCopyInto(EmptyMap, h.meta[d.Metadata]))
    IN  [heap |-> m.heap, data |-> LogContextData(t.ret, d.Category, m.ret, d.SessionID)]

WithCategory(h, lc, category) ==
    LET c == copyData(h, lc)
    IN  NewObject(c.heap, [c.data EXCEPT !.Category = category])

WithSessionID(h, lc, sessionID) ==
    LET c == copyData(h, lc)
    IN  NewObject(c.heap, [c.data EXCEPT !.SessionID = sessionID])

\* WithTags keeping the new tags only.
WithTagsReplace(h, lc, tags) ==
    LET c == copyData(h, lc)
    IN  NewObject([c.heap EXCEPT !.tags[c.data.Tags] = MapSetAll(EmptyMap, tags, TRUE)], c.data)

WithTags(h, lc, tags) ==
    LET c == copyData(h, lc)
    IN  NewObject([c.heap EXCEPT !.tags[c.data.Tags] = MapSetAll(@, tags, TRUE)], c.data)

\* WithoutTags marking the tags false and leaving their entries in the map.
WithoutTagsMarkFalse(h, lc, tags) ==
    LET c == copyData(h, lc)
        present == SelectSeq(tags, LAMBDA t : t \in DOMAIN c.heap.tags[c.data.Tags])
    IN  NewObject([c.heap EXCEPT !.tags[c.data.Tags] = MapSetAll(@, present, FALSE)], c.data)

WithoutTags(h, lc, tags) ==
    LET c == copyData(h, lc)
    IN  NewObject([c.heap EXCEPT !.tags[c.data.Tags] = MapDeleteAll(@, tags)], c.data)

\* WithMetadata keeping the value a key already has.
WithMetadataKeepOld(h, lc, metadata) ==
    LET c == copyData(h, lc)
    IN  NewObject([c.heap EXCEPT !.meta[c.data.Metadata] = MapCopyInto(metadata, @)], c.data)

\* metadata is the argument map's content: the argument is only read.
WithMetadata(h, lc, metadata) ==
    LET c == copyData(h, lc)
    IN  NewObject([c.heap EXCEPT !.meta[c.data.Metadata] = MapCopyInto(@, metadata)], c.data)

\* WithoutMetadata deleting the first key only.
WithoutMetadataFirst(h, lc, keys) ==
    LET c == copyData(h, lc)
    IN  NewObject([c.heap EXCEPT !.meta[c.data.Metadata] =
                      MapDeleteAll(@, IF keys = <<>> THEN <<>> ELSE <<Head(keys)>>)], c.data)

WithoutMetadata(h, lc, keys) ==
    LET c == copyData(h, lc)
    IN  NewObject([c.heap EXCEPT !.meta[c.data.Metadata] = MapDeleteAll(@, keys)], c.data)

\* What a LogContext holds, maps dereferenced.
Deref(h, lc) ==
    [Tags      |-> h.tags[h.lc[lc].Tags],
     Category  |-> h.lc[lc].Category,
     Metadata  |-> h.meta[h.lc[lc].Metadata],
     SessionID |-> h.lc[lc].SessionID]

\* ------------------------------------------------------------- context.Context
\* context.Background(): the empty chain.
Background == <<>>

\* The package's key, and a key of another package's own type.
logContextKey == "logContext"
otherKey == "user"

\* context.WithValue(parent, key, val): a new chain, the parent untouched.
contextWithValue(parent, key, val) == Append(parent, [key |-> key, val |-> val])

\* Value looking from the root of the chain: the outermost pair wins.
ValueOutermost(ctx, key) ==
    LET at == {i \in 1..Len(ctx) : ctx[i].key = key}
    IN  IF at = {} THEN [found |-> FALSE, val |-> 0]
        ELSE [found |-> TRUE, val |-> ctx[CHOOSE i \in at : \A j \in at : i <= j].val]

\* ctx.Value(key): the value of the innermost pair with this key; found is
\* FALSE when no pair has it (Value returns the nil interface).
RECURSIVE Value(_, _)
Value(ctx, key) ==
    IF ctx = <<>> THEN [found |-> FALSE, val |-> 0]
    ELSE IF ctx[Len(ctx)].key = key
         THEN [found |-> TRUE, val |-> ctx[Len(ctx)].val]
         ELSE Value(SubSeq(ctx, 1, Len(ctx) - 1), key)

\* GetLogContext reading one process-wide binding stack (that of goroutine
\* g1) instead of the ctx it is given.
GetLogContextShared(h, ctx) ==
    LET st == stack["g1"]
    IN  IF Len(st) > 1 THEN [heap |-> h, ret |-> st[Len(st)].lc]
        ELSE NewLogContext(h, LogContextData(Nil, "", Nil, ""))

\* GetLogContext(ctx): the *LogContext stored under logContextKey when there
\* is one (the type assertion succeeds for a stored nil *LogContext too, and
\* yields nil), else a new empty LogContext.
GetLogContext(h, ctx) ==
    LET v == Value(ctx, logContextKey)
    IN  IF v.found THEN [heap |-> h, ret |-> v.val]
        ELSE NewLogContext(h, LogContextData(Nil, "", Nil, ""))

\* enrichedCtx := context.WithValue(ctx, logContextKey, logContext)
Enriched(ctx, logContext) == contextWithValue(ctx, logContextKey, logContext)

\* WithLogContext handing on the zero value in place of the result when the
\* callback failed.
WithLogContextReturnZeroOnError(result, err) ==
    IF err # <<>> THEN <<"", err>> ELSE <<result, err>>

\* return callback(enrichedCtx): the callback's pair handed on as it is.
WithLogContextReturn(result, err) == <<result, err>>

\* A return that leaves the callee's enriched ctx in the caller's variable.
PopFrameLeak(st) ==
    [SubSeq(st, 1, Len(st) - 1) EXCEPT ![Len(st) - 1].ctx = st[Len(st)].ctx]

\* The call stack after WithLogContext returned: its frame is gone, the
\* caller's frame and its ctx are the ones that were there before the call.
PopFrame(st) == SubSeq(st, 1, Len(st) - 1)

\* ------------------------------------------------------------- the logger
\* The log levels.
LevelDebug == "debug"
LevelInfo == "info"
LevelWarn == "warn"
LevelError == "error"
Levels == {LevelDebug, LevelInfo, LevelWarn, LevelError}

\* Warn logging at a level named "warning".
MethodLevelWarning ==
    [Debug |-> LevelDebug, Info |-> LevelInfo, Warn |-> "warning", Error |-> LevelError]

\* The level each method of contextLogger logs at.
MethodLevel ==
    [Debug |-> LevelDebug, Info |-> LevelInfo, Warn |-> LevelWarn, Error |-> LevelError]
Methods == DOMAIN MethodLevel

\* New(ctx): a contextLogger holding ctx.
New(ctx) == [ctx |-> ctx]

\* var defaultLogger = New(context.Background())
defaultLogger == New(Background)

\* The values passed to a log call: a string, an error (str: its Error()),
\* or a context.Context (str: its String()).
StringArg(s) == [kind |-> "string", str |-> s]
ErrorArg(s) == [kind |-> "error", str |-> s]
\* An int argument (str: its decimal digits).
IntArg(s) == [kind |-> "int", str |-> s]

\* The String() of a context: context.Background, then one .WithValue(...)
\* per pair, naming the key (a string key prints as itself, a key of another
\* type as its type) and the value's type.
RECURSIVE ContextString(_)
ContextString(ctx) ==
    IF ctx = <<>> THEN "context.Background"
    ELSE ContextString(SubSeq(ctx, 1, Len(ctx) - 1)) \o
         (IF ctx[Len(ctx)].key = logContextKey
          THEN ".WithValue(logger.contextKey, *logger.LogContext)"
          ELSE ".WithValue(main.userKey, string)")
ContextArg(ctx) == [kind |-> "context", str |-> ContextString(ctx)]

\* fmt.Sprint(args...): the operands' default formats, a space added between
\* two operands when neither is a string.
RECURSIVE Sprint(_)
Sprint(args) ==
    IF args = <<>> THEN ""
    ELSE LET n == Len(args)
         IN  Sprint(SubSeq(args, 1, n - 1)) \o
             (IF n > 1 /\ args[n - 1].kind # "string" /\ args[n].kind # "string"
              THEN " " ELSE "") \o
             args[n].str

\* The strings the model sorts, in ascending lexicographic order.
Alphabet == <<"a", "b", "c">>
StringLess(x, y) ==
    (CHOOSE i \in 1..Len(Alphabet) : Alphabet[i] = x) <
    (CHOOSE i \in 1..Len(Alphabet) : Alphabet[i] = y)

\* The tags left in the order the range over the map gave them.
SortStringsNot(s) == s

\* sort.Strings(s)
RECURSIVE SortStrings(_)
SortStrings(s) ==
    IF s = <<>> THEN <<>>
    ELSE LET rest == SortStrings(Tail(s))
             k    == Cardinality({i \in 1..Len(rest) : StringLess(rest[i], Head(s))})
         IN  SubSeq(rest, 1, k) \o <<Head(s)>> \o SubSeq(rest, k + 1, Len(rest))

\* The orders in which a range over map m may visit its keys.
RangeOrders(m) ==
    {o \in [1..Cardinality(DOMAIN m) -> DOMAIN m] :
        \A i, j \in DOMAIN o : i # j => o[i] # o[j]}

\* time.Now().UTC().Format(time.RFC3339): some RFC3339 UTC time.
Timestamp == "2026-02-06T10:30:45Z"

\* One more field in a record.
WithField(r, k, v) == [x \in (DOMAIN r) \cup {k} |-> IF x = k THEN v ELSE r[x]]

\* A LogOutput whose Message is set for an empty argument list too.
LogOutputAlwaysMessage(h, logContext, level, args, order) ==
    LET d  == h.lc[logContext]
        o0 == [Level |-> level, Details |-> EmptyMap, Message |-> Sprint(args)]
        o1 == IF d.SessionID # "" THEN WithField(o0, "SessionID", d.SessionID) ELSE o0
        d1 == IF Cardinality(DOMAIN h.tags[d.Tags]) > 0
              THEN WithField(o1.Details, "tags", SortStrings(order)) ELSE o1.Details
        d2 == IF d.Category # "" THEN WithField(d1, "category", d.Category) ELSE d1
        d3 == IF Cardinality(DOMAIN h.meta[d.Metadata]) > 0
              THEN WithField(d2, "metadata", d.Metadata) ELSE d2
    IN  [o1 EXCEPT !.Details = WithField(d3, "timestamp", Timestamp)]

\* The LogOutput that log builds from logContext (an address, not nil), the
\* level and the arguments, the tags visited in the given order.  Details
\* holds the metadata map itself (its address), not a copy.
LogOutput(h, logContext, level, args, order) ==
    LET d  == h.lc[logContext]
        o0 == [Level |-> level, Details |-> EmptyMap]
        o1 == IF d.SessionID # "" THEN WithField(o0, "SessionID", d.SessionID) ELSE o0
        d1 == IF Cardinality(DOMAIN h.tags[d.Tags]) > 0
              THEN WithField(o1.Details, "tags", SortStrings(order)) ELSE o1.Details
        d2 == IF d.Category # "" THEN WithField(d1, "category", d.Category) ELSE d1
        d3 == IF Cardinality(DOMAIN h.meta[d.Metadata]) > 0
              THEN WithField(d2, "metadata", d.Metadata) ELSE d2
        d4 == WithField(d3, "timestamp", Timestamp)
        o2 == [o1 EXCEPT !.Details = d4]
    IN  IF Len(args) > 0 THEN WithField(o2, "Message", Sprint(args)) ELSE o2

\* json.Marshal(output): level and details always, message when the interface
\* is not nil, sessionId when not empty; the metadata map is read through.
Marshal(h, output) ==
    LET det == [k \in DOMAIN output.Details |->
                   IF k = "metadata" THEN h.meta[output.Details[k]] ELSE output.Details[k]]
        j0  == [level |-> output.Level, details |-> det]
        j1  == IF "Message" \in DOMAIN output THEN WithField(j0, "message", output.Message) ELSE j0
    IN  IF "SessionID" \in DOMAIN output /\ output.SessionID # ""
        THEN WithField(j1, "sessionId", output.SessionID) ELSE j1

\* The Go types of the values log puts in Details, and the types json.Marshal
\* encodes.
DetailTypes ==
    [tags |-> "[]string", category |-> "string",
     metadata |-> "map[string]string", timestamp |-> "string"]
Encodable == {"string", "[]string", "map[string]string"}

\* The error of json.Marshal(output), <<>> for nil: an UnsupportedTypeError
\* for a value of a type it cannot encode.  Message holds fmt.Sprint's string.
MarshalErr(output) ==
    LET bad == {DetailTypes[k] : k \in DOMAIN output.Details} \ Encodable
    IN  IF bad = {} THEN <<>> ELSE <<"json: unsupported type">>

\* The newline byte.
NewLine == [byte |-> "\n"]

\* The line and its newline written by two Write calls.
FprintlnTwoWrites(s) == << <<s>>, <<NewLine>> >>

\* The line written without its newline (fmt.Fprint).
FprintNoNewline(s) == << <<s>> >>

\* fmt.Fprintln(os.Stdout, s): the Write calls it makes on the file, which is
\* one call, of s followed by a newline.
Fprintln(s) == << <<s, NewLine>> >>

\* fmt.Fprintf(os.Stderr, "Failed to marshal log: %v\n", err): one Write call.
Diagnostic(err) == << <<[text |-> "Failed to marshal log: " \o err[1]], NewLine>> >>

\* What a sequence of Write calls puts in the file.
RECURSIVE Flatten(_)
Flatten(writes) == IF writes = <<>> THEN <<>> ELSE Head(writes) \o Flatten(Tail(writes))

\* A file's content split at the newlines: the lines that are terminated,
\* and what follows the last newline.
RECURSIVE SplitLines(_, _, _)
SplitLines(stream, line, lines) ==
    IF stream = <<>> THEN [lines |-> lines, rest |-> line]
    ELSE IF Head(stream) = NewLine
         THEN SplitLines(Tail(stream), <<>>, Append(lines, line))
         ELSE SplitLines(Tail(stream), Append(line, Head(stream)), lines)
Lines(stream) == SplitLines(stream, <<>>, <<>>).lines
Unterminated(stream) == SplitLines(stream, <<>>, <<>>).rest

\* log taking the entries out of the context's metadata map once they are
\* in the record (the record holds the map itself).
logTakingMetadata(h, cl, level, args, order) ==
    LET g == GetLogContext(h, cl.ctx)
    IN  IF g.ret = Nil THEN [panic |-> TRUE, heap |-> g.heap, stdout |-> <<>>, stderr |-> <<>>]
        ELSE LET output == LogOutput(g.heap, g.ret, level, args, order)
             IN  [panic |-> FALSE,
                  heap |-> [g.heap EXCEPT !.meta[g.heap.lc[g.ret].Metadata] = EmptyMap],
                  stdout |-> Fprintln(Marshal(g.heap, output)), stderr |-> <<>>]

\* cl.log(level, args...): panics (a nil pointer dereference) when
\* GetLogContext hands back nil; else builds the LogOutput and marshals it,
\* and writes the diagnostic to standard error when that failed, the line to
\* standard output when it did not.  heap: the heap when it returns.
log(h, cl, level, args, order) ==
    LET g == GetLogContext(h, cl.ctx)
    IN  IF g.ret = Nil THEN [panic |-> TRUE, heap |-> g.heap, stdout |-> <<>>, stderr |-> <<>>]
        ELSE LET output == LogOutput(g.heap, g.ret, level, args, order)
                 err    == MarshalErr(output)
             IN  IF err # <<>>
                 THEN [panic |-> FALSE, heap |-> g.heap,
                       stdout |-> <<>>, stderr |-> Diagnostic(err)]
                 ELSE [panic |-> FALSE, heap |-> g.heap,
                       stdout |-> Fprintln(Marshal(g.heap, output)), stderr |-> <<>>]

\* The tag map log ranges over (empty when GetLogContext hands back nil).
LoggedTags(h, cl) ==
    LET g == GetLogContext(h, cl.ctx)
    IN  IF g.ret = Nil THEN EmptyMap ELSE g.heap.tags[g.heap.lc[g.ret].Tags]

\* ------------------------------------------------------------- inputs
\* The sequences over S of length at most n.
RECURSIVE SeqsUpTo(_, _)
SeqsUpTo(S, n) ==
    IF n = 0 THEN {<<>>}
    ELSE LET shorter == SeqsUpTo(S, n - 1)
         IN  shorter \cup {Append(s, x) : s \in {t \in shorter : Len(t) = n - 1}, x \in S}

\* The elements of a sequence.
Range(s) == {s[i] : i \in 1..Len(s)}

\* The variadic argument lists the calls are tried with.
TagArgs == SeqsUpTo(TagNames, MaxArgs)
KeyArgs == SeqsUpTo(MetaKeys, MaxArgs)

\* The maps over keys K with values in V: every set of keys, every valuation.
MapsOver(K, V) == UNION {[D -> V] : D \in SUBSET K}

\* The metadata maps WithMetadata is called with (a nil map ranges like an empty one).
MetaArgs == MapsOver(MetaKeys, MetaVals)

\* The map literals a caller builds before handing them to NewLogContext.
CallerTagLiterals == {EmptyMap, [k \in {"a"} |-> TRUE], [k \in {"a", "b"} |-> (k = "a")]}
CallerMetaLiterals == {EmptyMap, [k \in {"k1"} |-> "v1"]}

\* The small alphabet: the inputs of the specification that runs every operation.
SmallTagArgs == SeqsUpTo({"a", "b"}, MaxArgs)
SmallKeyArgs == SeqsUpTo({"k1"}, MaxArgs)
SmallMetaArgs == MapsOver({"k1"}, MetaVals)
SmallTagLiterals == {[k \in {"a", "b"} |-> (k = "a")]}
SmallMetaLiterals == {[k \in {"k1"} |-> "v1"]}

\* A field left out of a struct literal (<<>>) or given (<<x>>).
Optional(S) == {<<>>} \cup {<<x>> : x \in S}

\* The goroutines, and the frame each starts in: ctx := context.Background().
Goroutines == {"g1", "g2"}
BaseFrame == [ctx |-> Background, lc |-> Nil]

\* A goroutine that is in no log call and has made none.
Idle == [writes |-> <<>>, calls |-> 0]

\* The program's variables after a step that left them h, c, r, ct, cm, the
\* garbage collected.
Step(h, c, r, ct, cm, name) ==
    LET g == Collect(h, <<c, r>>, <<ct>>, <<cm>>)
    IN  /\ heap' = g.heap
        /\ cur' = Moved(g.lc, c)
        /\ res' = Moved(g.lc, r)
        /\ callerTags' = Moved(g.tags, ct)
        /\ callerMeta' = Moved(g.meta, cm)
        /\ op' = [name |-> name]
        /\ UNCHANGED <<stack, stdout, stderr, pending, panicked>>

\* ------------------------------------------------------------- actions
Init ==
    /\ heap = EmptyHeap
    /\ cur = Nil
    /\ res = Nil
    /\ callerTags = Nil
    /\ callerMeta = Nil
    /\ op = [name |-> "init"]
    /\ stack = [g \in Goroutines |-> <<BaseFrame>>]
    /\ stdout = <<>>
    /\ stderr = <<>>
    /\ pending = [g \in Goroutines |-> Idle]
    /\ panicked = FALSE

\* res = NewLogContext(LogContextData{...}): the caller builds the struct
\* literal, whose maps (when given) are new objects it keeps a reference to.
NewLogContextAct(tagLits, metaLits) ==
    \E tl \in Optional(tagLits), ml \in Optional(metaLits),
       cat \in Categories, sid \in SessionIDs :
       LET t == IF tl = <<>> THEN [heap |-> heap, ret |-> Nil] ELSE MakeTags(heap, tl[1])
           m == IF ml = <<>> THEN [heap |-> t.heap, ret |-> Nil] ELSE MakeMeta(t.heap, ml[1])
           r == NewLogContext(m.heap, LogContextData(t.ret, cat, m.ret, sid))
       IN  Step(r.heap, cur, r.ret, t.ret, m.ret, "NewLogContext")

\* cur = res: the program goes on with the context the last call returned.
KeepAct ==
    /\ res # Nil
    /\ cur # res
    /\ Step(heap, res, res, callerTags, callerMeta, "keep")

\* The tail of every mutator call: res = r.ret, the other variables kept.
Returned(r, name) == Step(r.heap, cur, r.ret, callerTags, callerMeta, name)

WithCategoryAct ==
    /\ cur # Nil
    /\ \E cat \in Categories : Returned(WithCategory(heap, cur, cat), "WithCategory")

WithSessionIDAct ==
    /\ cur # Nil
    /\ \E sid \in SessionIDs : Returned(WithSessionID(heap, cur, sid), "WithSessionID")

WithTagsAct(args) ==
    /\ cur # Nil
    /\ \E tags \in args : Returned(WithTags(heap, cur, tags), "WithTags")

WithoutTagsAct(args) ==
    /\ cur # Nil
    /\ \E tags \in args : Returned(WithoutTags(heap, cur, tags), "WithoutTags")

WithMetadataAct(args) ==
    /\ cur # Nil
    /\ \E md \in args : Returned(WithMetadata(heap, cur, md), "WithMetadata")

WithoutMetadataAct(args) ==
    /\ cur # Nil
    /\ \E keys \in args : Returned(WithoutMetadata(heap, cur, keys), "WithoutMetadata")

\* The caller writes to, or deletes from, a map it handed to NewLogContext.
CallerSetTagAct ==
    /\ callerTags # Nil
    /\ \E t \in TagNames, v \in BOOLEAN :
          heap' = [heap EXCEPT !.tags[callerTags] = MapSet(@, t, v)]
    /\ op' = [name |-> "callerSetTag"]
    /\ UNCHANGED <<cur, res, callerTags, callerMeta, stack, stdout, stderr, pending, panicked>>

CallerDeleteTagAct ==
    /\ callerTags # Nil
    /\ \E t \in TagNames :
          heap' = [heap EXCEPT !.tags[callerTags] = MapDelete(@, t)]
    /\ op' = [name |-> "callerDeleteTag"]
    /\ UNCHANGED <<cur, res, callerTags, callerMeta, stack, stdout, stderr, pending, panicked>>

CallerSetMetaAct ==
    /\ callerMeta # Nil
    /\ \E k \in MetaKeys, v \in MetaVals :
          heap' = [heap EXCEPT !.meta[callerMeta] = MapSet(@, k, v)]
    /\ op' = [name |-> "callerSetMeta"]
    /\ UNCHANGED <<cur, res, callerTags, callerMeta, stack, stdout, stderr, pending, panicked>>

CallerDeleteMetaAct ==
    /\ callerMeta # Nil
    /\ \E k \in MetaKeys :
          heap' = [heap EXCEPT !.meta[callerMeta] = MapDelete(@, k)]
    /\ op' = [name |-> "callerDeleteMeta"]
    /\ UNCHANGED <<cur, res, callerTags, callerMeta, stack, stdout, stderr, pending, panicked>>

\* ------------------------------------------------------------- scopes
\* The program that binds contexts starts with two contexts built the way
\* the examples build them:
\*   cur = NewLogContext(LogContextData{SessionID: "req-1"})
\*   res = cur.WithTags("b", "a").WithMetadata({"k1": "v1"}).WithCategory("api")
ScopeHeap ==
    LET c1 == NewLogContext(EmptyHeap, LogContextData(Nil, "", Nil, "req-1"))
        t  == WithTags(c1.heap, c1.ret, <<"b", "a">>)
        m  == WithMetadata(t.heap, t.ret, [k \in {"k1"} |-> "v1"])
        c2 == WithCategory(m.heap, m.ret, "api")
    IN  Collect(c2.heap, <<c1.ret, c2.ret>>, <<>>, <<>>).heap

InitScope ==
    /\ heap = ScopeHeap
    /\ cur = 1
    /\ res = 2
    /\ callerTags = Nil
    /\ callerMeta = Nil
    /\ op = [name |-> "init"]
    /\ stack = [g \in Goroutines |-> <<BaseFrame>>]
    /\ stdout = <<>>
    /\ stderr = <<>>
    /\ pending = [g \in Goroutines |-> Idle]
    /\ panicked = FALSE

\* The frame goroutine g is running in.
Top(st) == st[Len(st)]

\* How many WithLogContext calls enclose goroutine g's current frame.
Depth(g) == Len(stack[g]) - 1

\* The callback results and errors tried: the zero value and another, no
\* error (<<>>) and an error.
Results == {"", "success"}
Errors == {<<>>, <<"boom">>}

\* Goroutine g calls WithLogContext(ctx, lc, callback) on its current ctx,
\* with lc one of binds; the callback starts running.
WithLogContextAct(g, binds, maxDepth) ==
    /\ ~panicked
    /\ Depth(g) < maxDepth
    /\ \E lc \in binds :
          stack' = [stack EXCEPT ![g] =
                       Append(@, [ctx |-> Enriched(Top(stack[g]).ctx, lc), lc |-> lc])]
    /\ op' = [name |-> "WithLogContext", g |-> g]
    /\ UNCHANGED <<heap, cur, res, callerTags, callerMeta, stdout, stderr, pending, panicked>>

\* g's code goes on with a context derived under a key of its own:
\* ctx = context.WithValue(ctx, userKey, "u").  Once per chain.
DeriveAct(g) ==
    /\ ~panicked
    /\ ~Value(Top(stack[g]).ctx, otherKey).found
    /\ stack' = [stack EXCEPT ![g][Len(stack[g])].ctx = contextWithValue(@, otherKey, Nil)]
    /\ op' = [name |-> "derive", g |-> g]
    /\ UNCHANGED <<heap, cur, res, callerTags, callerMeta, stdout, stderr, pending, panicked>>

\* The callback of g's innermost WithLogContext returns (result, err), and
\* WithLogContext returns to its caller.
ReturnAct(g) ==
    /\ ~panicked
    /\ Depth(g) > 0
    /\ \E result \in Results, err \in Errors :
          op' = [name |-> "return", g |-> g, callback |-> <<result, err>>,
                 ret |-> WithLogContextReturn(result, err)]
    /\ stack' = [stack EXCEPT ![g] = PopFrame(@)]
    /\ UNCHANGED <<heap, cur, res, callerTags, callerMeta, stdout, stderr, pending, panicked>>

\* g calls GetLogContext(ctx) on its current ctx; op.ret is what it got.
GetLogContextAct(g) ==
    /\ ~panicked
    /\ LET r == GetLogContext(heap, Top(stack[g]).ctx)
           c == Collect(r.heap, <<cur, res, r.ret>>, <<callerTags>>, <<callerMeta>>)
       IN  /\ heap' = c.heap
           /\ op' = [name |-> "GetLogContext", g |-> g, ret |-> Moved(c.lc, r.ret)]
    /\ UNCHANGED <<cur, res, callerTags, callerMeta, stack, stdout, stderr, pending, panicked>>

\* The program's state after a log call that did r: its writes are in the
\* files, what it allocated is garbage.
Emitted(r) ==
    /\ panicked' = r.panic
    /\ heap' = Collect(r.heap, <<cur, res>>, <<callerTags>>, <<callerMeta>>).heap
    /\ stdout' = stdout \o Flatten(r.stdout)
    /\ stderr' = stderr \o Flatten(r.stderr)
    /\ UNCHANGED <<cur, res, callerTags, callerMeta, stack, pending>>

\* The tail of a log call through logger cl.
Logged(g, cl, level, args, how) ==
    \E order \in RangeOrders(LoggedTags(heap, cl)) :
       /\ Emitted(log(heap, cl, level, args, order))
       /\ op' = [name |-> how, g |-> g]

\* g logs through a logger made for its current ctx: New(ctx).Info(args...).
LogAct(g, levels, maxOut) ==
    /\ ~panicked
    /\ Len(Lines(stdout)) < maxOut
    /\ \E level \in levels :
          Logged(g, New(Top(stack[g]).ctx), level, <<StringArg("msg")>>, "log")

\* g calls a package-level function, with or without its ctx as the first
\* argument: Info(ctx, "msg") or Info("msg").
PackageLogAct(g, levels, maxOut) ==
    /\ ~panicked
    /\ Len(Lines(stdout)) < maxOut
    /\ \E level \in levels,
          args \in {<<StringArg("msg")>>, <<ContextArg(Top(stack[g]).ctx), StringArg("msg")>>} :
          Logged(g, defaultLogger, level, args, "packageLog")

\* The program logs with the context it built last, bound to a ctx of its own:
\*   New(context.WithValue(ctx, logContextKey, res)).Method(args...)
\* op keeps the method and the arguments of the call.
LogWithAct(methods, argLists, maxOut) ==
    /\ ~panicked
    /\ res # Nil
    /\ Len(Lines(stdout)) < maxOut
    /\ \E method \in methods, args \in argLists :
          LET cl == New(Enriched(Background, res))
          IN  \E order \in RangeOrders(LoggedTags(heap, cl)) :
                 /\ Emitted(log(heap, cl, MethodLevel[method], args, order))
                 /\ op' = [name |-> "logWith", method |-> method, args |-> args]

Next ==
    \/ NewLogContextAct(SmallTagLiterals, SmallMetaLiterals)
    \/ KeepAct
    \/ WithCategoryAct
    \/ WithSessionIDAct
    \/ WithTagsAct(SmallTagArgs)
    \/ WithoutTagsAct(SmallTagArgs)
    \/ WithMetadataAct(SmallMetaArgs)
    \/ WithoutMetadataAct(SmallKeyArgs)

\* The builder, every operation over a small alphabet of tags and keys.
Spec == Init /\ [][Next]_vars

NextTags ==
    \/ NewLogContextAct(CallerTagLiterals, {})
    \/ KeepAct
    \/ WithTagsAct(TagArgs)
    \/ WithoutTagsAct(TagArgs)

\* The tag operations over the whole tag alphabet.
SpecTags == Init /\ [][NextTags]_vars

NextMeta ==
    \/ NewLogContextAct({}, CallerMetaLiterals)
    \/ KeepAct
    \/ WithMetadataAct(MetaArgs)
    \/ WithoutMetadataAct(KeyArgs)

\* The metadata operations over the whole key alphabet.
SpecMeta == Init /\ [][NextMeta]_vars

NextCaller ==
    \/ NewLogContextAct(CallerTagLiterals, CallerMetaLiterals)
    \/ CallerSetTagAct
    \/ CallerDeleteTagAct
    \/ CallerSetMetaAct
    \/ CallerDeleteMetaAct

\* A caller that creates contexts from its own maps and goes on using the maps.
SpecCaller == Init /\ [][NextCaller]_vars

\* The mutators of LogContext.
MutatorNames ==
    {"WithCategory", "WithSessionID", "WithTags", "WithoutTags", "WithMetadata", "WithoutMetadata"}

\* lc.copyData() reads lc.data: a nil receiver is a nil pointer dereference,
\* and every mutator starts with this call.
copyDataPanics(lc) == lc = Nil

\* ctx.Value(...) in GetLogContext is a method call on the interface, and
\* context.WithValue in WithLogContext refuses a nil parent: a nil ctx
\* (<<>> here, a context being <<ctx>>) panics in both.
ValuePanics(ctx) == ctx = <<>>
contextWithValuePanics(parent) == parent = <<>>

\* The goroutine panics in the call named: nothing is returned.
Panic(name) ==
    /\ panicked' = TRUE
    /\ op' = [name |-> name, panic |-> TRUE]
    /\ UNCHANGED <<heap, cur, res, callerTags, callerMeta, stack, stdout, stderr, pending>>

\* res = NewLogContext(LogContextData{...}), any field given or left out.
NewCallAct ==
    /\ ~panicked
    /\ NewLogContextAct(SmallTagLiterals, SmallMetaLiterals)

\* res = recv.With...(...) / recv.Without...(...), recv the program's
\* LogContext or a nil *LogContext, the arguments empty lists and nil maps
\* included.
MutatorCallAct ==
    /\ ~panicked
    /\ \E recv \in {cur, Nil} :
          IF copyDataPanics(recv)
          THEN \E name \in MutatorNames : Panic(name)
          ELSE \/ WithCategoryAct
               \/ WithSessionIDAct
               \/ WithTagsAct(SmallTagArgs)
               \/ WithoutTagsAct(SmallTagArgs)
               \/ WithMetadataAct(SmallMetaArgs)
               \/ WithoutMetadataAct(SmallKeyArgs)

\* GetLogContext(ctx), ctx the goroutine's current ctx or nil.
GetLogContextCallAct(g) ==
    /\ ~panicked
    /\ \E ctx \in Optional({Top(stack[g]).ctx}) :
          IF ValuePanics(ctx) THEN Panic("GetLogContext") ELSE GetLogContextAct(g)

\* WithLogContext(ctx, lc, callback), ctx the goroutine's current ctx or nil,
\* lc the program's LogContext or nil.
WithLogContextCallAct(g) ==
    /\ ~panicked
    /\ \E ctx \in Optional({Top(stack[g]).ctx}) :
          IF contextWithValuePanics(ctx) THEN Panic("WithLogContext")
          ELSE WithLogContextAct(g, {cur, Nil}, MaxDepth)

NextTotal ==
    \/ NewCallAct
    \/ MutatorCallAct
    \/ GetLogContextCallAct("g1")
    \/ WithLogContextCallAct("g1")
    \/ ReturnAct("g1")

\* Every operation of the context API called with any input, nil receivers,
\* nil arguments and a nil ctx included.
SpecTotal == InitScope /\ [][NextTotal]_vars

\* The levels the scoped programs log at.
ScopeLevels == {LevelInfo}

NextScope ==
    \/ WithLogContextAct("g1", {cur, res, Nil}, MaxDepth)
    \/ DeriveAct("g1")
    \/ ReturnAct("g1")
    \/ GetLogContextAct("g1")
    \/ LogAct("g1", ScopeLevels, MaxOut)
    \/ PackageLogAct("g1", ScopeLevels, MaxOut)

\* One goroutine that nests bindings, reads the context back and logs.
SpecScope == InitScope /\ [][NextScope]_vars

\* The context goroutine g binds in the concurrent program.
Own(g) == IF g = "g1" THEN cur ELSE res

NextConc ==
    \E g \in Goroutines :
        \/ WithLogContextAct(g, {Own(g)}, MaxDepth)
        \/ ReturnAct(g)
        \/ GetLogContextAct(g)
        \/ LogAct(g, {LevelInfo}, MaxOut)

\* Two goroutines, each binding its own context, in every interleaving.
SpecConc == InitScope /\ [][NextConc]_vars

\* The program builds its tags, then logs: nothing is built once a line is out.
BuildTagsAct ==
    /\ stdout = <<>>
    /\ NextTags

NextLogTags ==
    \/ BuildTagsAct
    \/ LogWithAct({"Info"}, {<<StringArg("msg")>>}, MaxOut)

\* Contexts whose tags were added in every order, then logged.
SpecLogTags == Init /\ [][NextLogTags]_vars

\* The map literals of the contexts that are logged: every tag set to true.
LogTagLiterals == {EmptyMap, [k \in {"b", "a"} |-> TRUE]}

\* The argument lists the log calls are tried with.
LogArgLists ==
    {<<>>,
     <<StringArg("hello")>>,
     <<StringArg("go")>>,
     <<StringArg("")>>,
     <<ErrorArg("boom")>>,
     <<StringArg("fetch failed"), ErrorArg("timeout")>>,
     <<IntArg("1"), IntArg("2")>>,
     <<StringArg("a"), StringArg("b"), StringArg("c")>>,
     <<StringArg("a"), StringArg("b"), ErrorArg("x")>>}

\* The program creates its context, then logs.
BuildAct ==
    /\ stdout = <<>>
    /\ NewLogContextAct(LogTagLiterals, CallerMetaLiterals)

NextLog ==
    \/ BuildAct
    \/ LogWithAct(Methods, LogArgLists, MaxOut)

\* Every context logged by every method with every argument list.
SpecLog == Init /\ [][NextLog]_vars

\* Goroutine g calls a method of a logger bound to its own context: the call
\* runs up to its Fprintln, whose Write calls are still to be made (a
\* diagnostic, if there is one, is written at once).
LogStartAct(g, methods, maxCalls) ==
    /\ ~panicked
    /\ pending[g].writes = <<>>
    /\ pending[g].calls < maxCalls
    /\ \E method \in methods :
          LET cl == New(Enriched(Background, Own(g)))
          IN  \E order \in RangeOrders(LoggedTags(heap, cl)) :
                 LET r == log(heap, cl, MethodLevel[method], <<StringArg("msg")>>, order)
                 IN  /\ panicked' = r.panic
                     /\ heap' = Collect(r.heap, <<cur, res>>, <<callerTags>>, <<callerMeta>>).heap
                     /\ stderr' = stderr \o Flatten(r.stderr)
                     /\ pending' = [pending EXCEPT ![g] =
                                       [writes |-> r.stdout, calls |-> @.calls + 1]]
    /\ op' = [name |-> "logStart", g |-> g]
    /\ UNCHANGED <<cur, res, callerTags, callerMeta, stack, stdout>>

\* The next Write call of g's log call: os.File serializes the Write calls
\* on one file, so what one call writes is in the file in one piece.
WriteAct(g) ==
    /\ ~panicked
    /\ pending[g].writes # <<>>
    /\ stdout' = stdout \o Head(pending[g].writes)
    /\ pending' = [pending EXCEPT ![g].writes = Tail(@)]
    /\ op' = [name |-> "write", g |-> g]
    /\ UNCHANGED <<heap, cur, res, callerTags, callerMeta, stack, stderr, panicked>>

NextWrite ==
    \E g \in Goroutines :
        \/ LogStartAct(g, Methods, MaxOut)
        \/ WriteAct(g)

\* Two goroutines logging at once, each with its own context.
SpecWrite == InitScope /\ [][NextWrite]_vars

\* The argument lists of the program that only logs.
EmitArgLists == {<<>>, <<StringArg("hello")>>}

NextEmit ==
    LogWithAct(Methods, EmitArgLists, MaxLines)

\* A program that logs one line after another with one context.
SpecEmit == InitScope /\ [][NextEmit]_vars

\* ------------------------------------------------------------- properties
\* The keys of a context's tag map.
TagSet(h, lc) == DOMAIN h.tags[h.lc[lc].Tags]

\* What an empty LogContext holds.
EmptyData == [Tags |-> EmptyMap, Category |-> "", Metadata |-> EmptyMap, SessionID |-> ""]

\* The JSON object of the last line of standard output.
LastLine == Lines(stdout)[Len(Lines(stdout))][1]

\* The context a written line carries: an omitted field reads as empty.
LineContext(line) ==
    [SessionID |-> IF "sessionId" \in DOMAIN line THEN line.sessionId ELSE "",
     Tags      |-> IF "tags" \in DOMAIN line.details THEN Range(line.details.tags) ELSE {},
     Category  |-> IF "category" \in DOMAIN line.details THEN line.details.category ELSE "",
     Metadata  |-> IF "metadata" \in DOMAIN line.details THEN line.details.metadata ELSE EmptyMap]

\* The same four fields of context data d.
DataContext(d) ==
    [SessionID |-> d.SessionID, Tags |-> DOMAIN d.Tags,
     Category |-> d.Category, Metadata |-> d.Metadata]

\* What GetLogContext(ctx) hands back on heap h: the pointer, and what it holds.
Observed(h, ctx) ==
    LET r == GetLogContext(h, ctx)
    IN  [ret |-> r.ret, data |-> IF r.ret = Nil THEN <<>> ELSE <<Deref(r.heap, r.ret)>>]

\* C1: a mutator call leaves the tags, category, metadata and sessionId of
\* its receiver as they were; the change is in the returned LogContext only,
\* which is another object with maps of its own.
C1_MutatorLeavesReceiver ==
    [][op'.name \in MutatorNames =>
          /\ Deref(heap', cur') = Deref(heap, cur)
          /\ res' # cur'
          /\ heap'.lc[res'].Tags # heap'.lc[cur'].Tags
          /\ heap'.lc[res'].Metadata # heap'.lc[cur'].Metadata]_vars

\* A mutator returned a context that differs from its receiver.
C1_Witness ==
    /\ op.name \in MutatorNames
    /\ Deref(heap, res) # Deref(heap, cur)
    /\ DOMAIN Deref(heap, cur).Tags # {}

\* C2: GetLogContext(ctx) hands back the LogContext bound by the innermost
\* enclosing WithLogContext (shadowing the outer ones), and a new empty
\* LogContext when ctx has no binding.
C2_GetReturnsInnermostBinding ==
    op.name = "GetLogContext" =>
        IF Depth(op.g) > 0
        THEN op.ret = Top(stack[op.g]).lc
        ELSE /\ op.ret \notin {Nil, cur, res}
             /\ Deref(heap, op.ret) = EmptyData

\* GetLogContext ran under two nested bindings of different contexts, on a
\* ctx derived under another key after the inner binding.
C2_Witness ==
    /\ op.name = "GetLogContext"
    /\ Depth(op.g) = 2
    /\ stack[op.g][2].lc = cur
    /\ stack[op.g][3].lc = res
    /\ Top(stack[op.g]).ctx[Len(Top(stack[op.g]).ctx)].key = otherKey
    /\ op.ret = res

\* C3: when WithLogContext returns, with a result or an error, GetLogContext
\* on the caller's ctx hands back what it handed back before the call: the
\* context of the enclosing binding, or an empty one when there is none.  The
\* call changes no frame of the caller while it runs.
C3_ReturnRestoresCallerBinding ==
    [][/\ op'.name = "WithLogContext" =>
             SubSeq(stack'[op'.g], 1, Len(stack[op'.g])) = stack[op'.g]
       /\ op'.name = "return" =>
             LET g      == op'.g
                 caller == stack[g][Len(stack[g]) - 1]
                 after  == Observed(heap', Top(stack'[g]).ctx)
             IN  /\ Len(stack'[g]) = Len(stack[g]) - 1
                 /\ after = Observed(heap, caller.ctx)
                 /\ IF Len(stack'[g]) > 1
                    THEN after.ret = caller.lc
                    ELSE after.data = <<EmptyData>>]_vars

\* An inner WithLogContext returned an error into a scope bound to cur.
C3_Witness ==
    /\ op.name = "return"
    /\ op.ret[2] # <<>>
    /\ Depth(op.g) = 1
    /\ Top(stack[op.g]).lc = cur

\* C4: a package-level Debug/Info/Warn/Error call made inside
\* WithLogContext(ctx, c, fn) writes a line carrying c's sessionId, tags,
\* category and metadata, and a line with an empty context only when no
\* context is bound.
C4_PackageLogCarriesBoundContext ==
    (op.name = "packageLog" /\ ~panicked) =>
        LET bound == Top(stack[op.g]).lc
            line  == LastLine
        IN  /\ (Depth(op.g) > 0 /\ bound # Nil) =>
                   LineContext(line) = DataContext(Deref(heap, bound))
            /\ Depth(op.g) = 0 => LineContext(line) = DataContext(EmptyData)

\* C5: WithLogContext returns the very (result, error) pair its callback
\* returned, an error with the zero result included.
C5_ReturnsCallbackPair ==
    op.name = "return" => op.ret = op.callback

\* A callback returned an error together with a non-zero result.
C5_Witness ==
    /\ op.name = "return"
    /\ op.callback = <<"success", <<"boom">>>>

\* C6: GetLogContext never hands back nil, a ctx bound to a nil LogContext
\* included.
C6_GetNeverNil ==
    op.name = "GetLogContext" => op.ret # Nil

\* C7: with each goroutine binding its own LogContext, a GetLogContext or log
\* call in a goroutine's callback sees the context this goroutine bound,
\* never the other's, wherever the other goroutine is.
C7_GoroutineSeesOwnBinding ==
    /\ (op.name = "GetLogContext" /\ Depth(op.g) > 0) => op.ret = Own(op.g)
    /\ (op.name = "log" /\ Depth(op.g) > 0) =>
           LineContext(LastLine) = DataContext(Deref(heap, Own(op.g)))

\* g2 logged inside its binding while g1 was inside its own.
C7_Witness ==
    /\ op.name = "log"
    /\ op.g = "g2"
    /\ Depth("g1") > 0
    /\ Depth("g2") > 0

\* C8: after NewLogContext(initial), what the caller does to the maps it
\* passed in changes nothing in the LogContext.
C8_CallerMapsNotAliased ==
    [][(op'.name \in {"callerSetTag", "callerDeleteTag", "callerSetMeta", "callerDeleteMeta"}
        /\ res # Nil) =>
          Deref(heap', res') = Deref(heap, res)]_vars

\* C9: c.WithTags(t1..tn) has exactly the tags of c and t1..tn, each new one
\* set, whatever is repeated or present already; the same call on the result
\* changes no tag; with no arguments the result holds what c holds.
C9_WithTagsIsUnion ==
    /\ cur # Nil =>
          \A tags \in TagArgs :
             LET r     == WithTags(heap, cur, tags)
                 again == WithTags(r.heap, r.ret, tags)
             IN  /\ TagSet(r.heap, r.ret) = TagSet(heap, cur) \cup Range(tags)
                 /\ \A t \in Range(tags) : Deref(r.heap, r.ret).Tags[t]
                 /\ \A t \in TagSet(heap, cur) \ Range(tags) :
                       Deref(r.heap, r.ret).Tags[t] = Deref(heap, cur).Tags[t]
                 /\ Deref(again.heap, again.ret).Tags = Deref(r.heap, r.ret).Tags
                 /\ tags = <<>> => Deref(r.heap, r.ret) = Deref(heap, cur)
    /\ op.name = "WithTags" => TagSet(heap, cur) \subseteq TagSet(heap, res)

\* WithTags made {a, b, c} out of {a, b}.
C9_Witness ==
    /\ op.name = "WithTags"
    /\ TagSet(heap, cur) = {"a", "b"}
    /\ TagSet(heap, res) = {"a", "b", "c"}

\* C10: c.WithoutTags(t1..tn) has exactly the tags of c that are not among
\* t1..tn, each as it was; when c has none of them (or none is given) the
\* result holds what c holds.
C10_WithoutTagsIsDifference ==
    /\ cur # Nil =>
          \A tags \in TagArgs :
             LET r == WithoutTags(heap, cur, tags)
             IN  /\ TagSet(r.heap, r.ret) = TagSet(heap, cur) \ Range(tags)
                 /\ \A t \in TagSet(r.heap, r.ret) :
                       Deref(r.heap, r.ret).Tags[t] = Deref(heap, cur).Tags[t]
                 /\ (Range(tags) \cap TagSet(heap, cur) = {}) =>
                       Deref(r.heap, r.ret) = Deref(heap, cur)
    /\ op.name = "WithoutTags" => TagSet(heap, res) \subseteq TagSet(heap, cur)

\* WithoutTags made {a, c} out of {a, b, c}.
C10_Witness ==
    /\ op.name = "WithoutTags"
    /\ TagSet(heap, cur) = {"a", "b", "c"}
    /\ TagSet(heap, res) = {"a", "c"}

\* The keys of a context's metadata map.
MetaKeySet(h, lc) == DOMAIN h.meta[h.lc[lc].Metadata]

\* C11: c.WithMetadata(m) holds m's value for every key of m, replacing the
\* value c has for it, and c's value for every other key of c; a later call
\* for the same key wins; a nil or empty m leaves what c holds.
C11_WithMetadataIsUpsert ==
    /\ cur # Nil =>
          \A m \in MetaArgs :
             LET r  == WithMetadata(heap, cur, m)
                 md == Deref(r.heap, r.ret).Metadata
             IN  /\ DOMAIN md = MetaKeySet(heap, cur) \cup DOMAIN m
                 /\ \A k \in DOMAIN m : md[k] = m[k]
                 /\ \A k \in MetaKeySet(heap, cur) \ DOMAIN m :
                       md[k] = Deref(heap, cur).Metadata[k]
                 /\ m = EmptyMap => Deref(r.heap, r.ret) = Deref(heap, cur)
                 /\ \A m2 \in MetaArgs :
                       LET r2 == WithMetadata(r.heap, r.ret, m2)
                       IN  \A k \in DOMAIN m2 : Deref(r2.heap, r2.ret).Metadata[k] = m2[k]
    /\ op.name = "WithMetadata" => MetaKeySet(heap, cur) \subseteq MetaKeySet(heap, res)

\* WithMetadata replaced the value of k1 and kept k2.
C11_Witness ==
    /\ op.name = "WithMetadata"
    /\ Deref(heap, cur).Metadata = [k \in {"k1", "k2"} |-> "v1"]
    /\ Deref(heap, res).Metadata = [k \in {"k1", "k2"} |-> IF k = "k1" THEN "v2" ELSE "v1"]

\* C12: c.WithoutMetadata(k1..kn) has exactly the keys of c that are not
\* among k1..kn, each with the value c has for it; when c has none of them
\* (or none is given) the result holds what c holds.
C12_WithoutMetadataIsDelete ==
    /\ cur # Nil =>
          \A keys \in KeyArgs :
             LET r  == WithoutMetadata(heap, cur, keys)
                 md == Deref(r.heap, r.ret).Metadata
             IN  /\ DOMAIN md = MetaKeySet(heap, cur) \ Range(keys)
                 /\ \A k \in DOMAIN md : md[k] = Deref(heap, cur).Metadata[k]
                 /\ (Range(keys) \cap MetaKeySet(heap, cur) = {}) =>
                       Deref(r.heap, r.ret) = Deref(heap, cur)
    /\ op.name = "WithoutMetadata" => MetaKeySet(heap, res) \subseteq MetaKeySet(heap, cur)

\* WithoutMetadata made {k2: v2} out of {k1: v1, k2: v2}.
C12_Witness ==
    /\ op.name = "WithoutMetadata"
    /\ Deref(heap, cur).Metadata = [k \in {"k1", "k2"} |-> IF k = "k1" THEN "v1" ELSE "v2"]
    /\ Deref(heap, res).Metadata = [k \in {"k2"} |-> "v2"]

\* C13: no call of NewLogContext, a mutator, GetLogContext or WithLogContext
\* panics, whatever its input: a nil receiver, a nil LogContext or map
\* argument, a nil ctx, an empty argument list.
C13_ContextCallsNeverPanic ==
    ~panicked

\* s lists its strings in strictly ascending order.
Ascending(s) == \A i \in 1..Len(s) - 1 : StringLess(s[i], s[i + 1])

\* C14 (a tag of a context: a key of its Tags map): for a context with tags, details.tags of the line lists every tag
\* of the context once, in strictly ascending order, whatever the order the
\* tags were added in and whatever order the range over the map takes: the
\* same context always gives the same tags sequence.
C14_TagsSortedAscending ==
    /\ op.name = "logWith" =>
          IF TagSet(heap, res) = {}
          THEN "tags" \notin DOMAIN LastLine.details
          ELSE /\ "tags" \in DOMAIN LastLine.details
               /\ Range(LastLine.details.tags) = TagSet(heap, res)
               /\ Len(LastLine.details.tags) = Cardinality(TagSet(heap, res))
               /\ Ascending(LastLine.details.tags)
    /\ res # Nil =>
          LET cl == New(Enriched(Background, res))
          IN  \A o1, o2 \in RangeOrders(LoggedTags(heap, cl)) :
                 log(heap, cl, LevelInfo, <<>>, o1) = log(heap, cl, LevelInfo, <<>>, o2)

\* A context that was given b after a and c was logged.
C14_Witness ==
    /\ op.name = "logWith"
    /\ cur # Nil
    /\ TagSet(heap, cur) = {"a", "c"}
    /\ TagSet(heap, res) = {"a", "b", "c"}
    /\ LastLine.details.tags = <<"a", "b", "c">>

\* The string fields a line has with nothing in them.
EmptyStringFields(line) ==
    {f \in {"message", "sessionId"} \cap DOMAIN line : line[f] = ""} \cup
    {f \in {"category", "stack"} \cap DOMAIN line.details : line.details[f] = ""}

\* C15: every line has level, details and details.timestamp, and each of
\* message, sessionId, details.tags, details.category, details.metadata and
\* details.stack is either absent from it or not empty, whatever the context
\* and the arguments, an argument that prints as "" included.
C15_OptionalFieldsAbsentOrNonEmpty ==
    op.name = "logWith" =>
        /\ {"level", "details"} \subseteq DOMAIN LastLine
        /\ "timestamp" \in DOMAIN LastLine.details
        /\ EmptyStringFields(LastLine) = {}
        /\ "tags" \in DOMAIN LastLine.details => LastLine.details.tags # <<>>
        /\ "metadata" \in DOMAIN LastLine.details => DOMAIN LastLine.details.metadata # {}

\* The name of the level each method stands for.
LevelNames == [Debug |-> "debug", Info |-> "info", Warn |-> "warn", Error |-> "error"]

\* C16: a log call by method L of a logger whose ctx is bound to context c
\* writes a line with L's level name, with c's sessionId, category, tags
\* (sorted) and metadata, each when c has it and absent otherwise, with a
\* timestamp, and with the message "go" for the argument "go".
C16_LineCarriesLevelAndContext ==
    op.name = "logWith" =>
        /\ LastLine.level = LevelNames[op.method]
        /\ LineContext(LastLine) = DataContext(Deref(heap, res))
        /\ "sessionId" \in DOMAIN LastLine <=> Deref(heap, res).SessionID # ""
        /\ "category" \in DOMAIN LastLine.details <=> Deref(heap, res).Category # ""
        /\ "tags" \in DOMAIN LastLine.details <=> TagSet(heap, res) # {}
        /\ "tags" \in DOMAIN LastLine.details => Ascending(LastLine.details.tags)
        /\ "metadata" \in DOMAIN LastLine.details <=> MetaKeySet(heap, res) # {}
        /\ LastLine.details.timestamp = Timestamp
        /\ op.args = <<StringArg("go")>> => LastLine.message = "go"

\* info("go") with sessionId "req-1", tags b and a, and metadata {k1: "v1"}.
C16_Witness ==
    /\ op.name = "logWith"
    /\ op.method = "Info"
    /\ op.args = <<StringArg("go")>>
    /\ LastLine.level = "info"
    /\ LastLine.message = "go"
    /\ "sessionId" \in DOMAIN LastLine
    /\ LastLine.sessionId = "req-1"
    /\ DOMAIN LastLine.details = {"tags", "metadata", "timestamp"}
    /\ LastLine.details.tags = <<"a", "b">>
    /\ LastLine.details.metadata = [k \in {"k1"} |-> "v1"]

\* The strings of the arguments, sep between each two.
RECURSIVE Joined(_, _)
Joined(args, sep) ==
    IF args = <<>> THEN ""
    ELSE IF Len(args) = 1 THEN args[1].str
    ELSE args[1].str \o sep \o Joined(Tail(args), sep)

\* C17: with two or more arguments, the last one not an error, the message
\* is the arguments' strings joined by single spaces: log("a", "b", "c")
\* gives "a b c".
C17_MessageJoinedBySpaces ==
    (op.name = "logWith" /\ Len(op.args) >= 2 /\ op.args[Len(op.args)].kind # "error") =>
        LastLine.message = Joined(op.args, " ")

\* C18: with two or more arguments, the last one an error, the message is
\* the first argument's string, the middle ones' strings with nothing
\* between, one space and the error's string: log("fetch failed", err) gives
\* "fetch failed timeout", log("a", "b", err) gives "ab x".
C18_MessageWithTrailingError ==
    (op.name = "logWith" /\ Len(op.args) >= 2 /\ op.args[Len(op.args)].kind = "error") =>
        LastLine.message =
            Joined(SubSeq(op.args, 1, Len(op.args) - 1), "") \o " " \o op.args[Len(op.args)].str

\* C19: details.stack is in the line exactly when there are arguments and
\* the last one is an error, and it then holds this error's representation.
C19_StackIffTrailingError ==
    op.name = "logWith" =>
        LET trailing == Len(op.args) > 0 /\ op.args[Len(op.args)].kind = "error"
        IN  /\ "stack" \in DOMAIN LastLine.details <=> trailing
            /\ "stack" \in DOMAIN LastLine.details =>
                   LastLine.details.stack = op.args[Len(op.args)].str

\* C20: with no argument the line has no message; with one argument the
\* message is this argument's string: Error() for an error, the default
\* format otherwise.
C20_MessageOfNoneAndOne ==
    op.name = "logWith" =>
        /\ Len(op.args) = 0 => "message" \notin DOMAIN LastLine
        /\ Len(op.args) = 1 =>
               /\ "message" \in DOMAIN LastLine
               /\ LastLine.message = op.args[1].str

\* log(err), err printing "boom", gave the message "boom".
C20_Witness ==
    /\ op.name = "logWith"
    /\ op.args = <<ErrorArg("boom")>>
    /\ LastLine.message = "boom"

\* A JSON object written by log: an object with a level and details.
IsJSONObject(tok) == {"level", "details"} \subseteq DOMAIN tok

\* C21: a log call (its record always serializes) appends to standard
\* output one JSON object and one newline, in one piece after what was there,
\* and writes nothing to standard error; so after n calls standard output
\* holds n lines, the calls' lines in the order of the calls.
C21_OneLinePerCall ==
    [][op'.name = "logWith" =>
          /\ Len(stdout') = Len(stdout) + 2
          /\ SubSeq(stdout', 1, Len(stdout)) = stdout
          /\ IsJSONObject(stdout'[Len(stdout) + 1])
          /\ stdout'[Len(stdout) + 1].level = LevelNames[op'.method]
          /\ stdout'[Len(stdout) + 2] = NewLine
          /\ Lines(stdout') = Append(Lines(stdout), <<stdout'[Len(stdout) + 1]>>)
          /\ Unterminated(stdout') = <<>>
          /\ stderr' = stderr]_vars

\* Three calls, Debug, Info and Error, left three lines in this order.
C21_Witness ==
    /\ Len(Lines(stdout)) = 3
    /\ Lines(stdout)[1][1].level = "debug"
    /\ Lines(stdout)[2][1].level = "info"
    /\ Lines(stdout)[3][1].level = "error"
    /\ stderr = <<>>

\* The lines of standard output that carry goroutine g's context.
LinesOf(g) ==
    {i \in 1..Len(Lines(stdout)) :
        LineContext(Lines(stdout)[i][1]) = DataContext(Deref(heap, Own(g)))}

\* C23: with goroutines logging at once, every line of standard output is
\* one whole JSON object, never parts of two records, and once the calls
\* have returned every record of every goroutine is there as a line of its
\* own, none lost.
C23_LinesWrittenWhole ==
    /\ \A i \in 1..Len(Lines(stdout)) :
          /\ Len(Lines(stdout)[i]) = 1
          /\ IsJSONObject(Lines(stdout)[i][1])
    /\ Len(Unterminated(stdout)) <= 1
    /\ (\A g \in Goroutines : pending[g].writes = <<>>) =>
          /\ Unterminated(stdout) = <<>>
          /\ \A g \in Goroutines : Cardinality(LinesOf(g)) = pending[g].calls

\* Both goroutines were in a log call at once, and both lines are out, that
\* of g2 first.
C23_Witness ==
    /\ op.name = "write"
    /\ op.g = "g1"
    /\ Len(Lines(stdout)) = 2
    /\ LinesOf("g2") = {1}
    /\ LinesOf("g1") = {2}

\* C24: every LogContext there is, made by NewLogContext with maps given or
\* left out or by a mutator, has a tag map and a metadata map that are not
\* nil, and so has the one GetLogContext makes for an unbound ctx, whose maps
\* are both empty, as are those NewLogContext makes for empty data.
C24_CollectionsNeverNil ==
    /\ \A lc \in 1..Len(heap.lc) :
          /\ heap.lc[lc].Tags # Nil
          /\ heap.lc[lc].Metadata # Nil
    /\ op.name \in MutatorNames \cup {"NewLogContext"} =>
          /\ heap.lc[res].Tags # Nil
          /\ heap.lc[res].Metadata # Nil
    /\ \A r \in {GetLogContext(heap, Background),
                  NewLogContext(heap, LogContextData(Nil, "", Nil, ""))} :
          /\ r.heap.lc[r.ret].Tags # Nil
          /\ r.heap.lc[r.ret].Metadata # Nil
          /\ Deref(r.heap, r.ret) = EmptyData

\* NewLogContext was given no map and a category, and made two empty maps.
C24_Witness ==
    /\ op.name = "NewLogContext"
    /\ callerTags = Nil
    /\ callerMeta = Nil
    /\ heap.lc[res].Category = "api"
    /\ heap.lc[res].Tags # Nil
    /\ Deref(heap, res).Tags = EmptyMap
    /\ Deref(heap, res).Metadata = EmptyMap

\* C25: a WithLogContext call, its return, a GetLogContext call and a log
\* call, through a logger or the package, leave every LogContext of the
\* program, bound or not, with the tags, category, metadata and sessionId it
\* had.
C25_BindingAndLoggingLeaveContexts ==
    [][op'.name \in {"WithLogContext", "derive", "return", "GetLogContext", "log", "packageLog"} =>
          /\ cur' = cur
          /\ res' = res
          /\ Deref(heap', cur') = Deref(heap, cur)
          /\ Deref(heap', res') = Deref(heap, res)]_vars

\* A line with metadata was logged inside a binding nested in a binding of
\* another context.
C25_Witness ==
    /\ op.name = "log"
    /\ Depth(op.g) = 2
    /\ stack[op.g][2].lc = cur
    /\ stack[op.g][3].lc = res
    /\ "metadata" \in DOMAIN LastLine.details
    /\ Deref(heap, res).Metadata = LastLine.details.metadata

\* C26: the metadata of the record that log builds is a copy of the
\* context's metadata map, another map than the context's: an entry put in
\* the context's map once the record is built does not show in the record.
C26_RecordMetadataIsCopy ==
    (op.name = "logWith" /\ "metadata" \in DOMAIN LastLine.details) =>
        \A order \in RangeOrders(Deref(heap, res).Tags) :
           LET output  == LogOutput(heap, res, MethodLevel[op.method], op.args, order)
               changed == [heap EXCEPT !.meta[heap.lc[res].Metadata] = MapSet(@, "k2", "v2")]
           IN  /\ output.Details.metadata # heap.lc[res].Metadata
               /\ Marshal(changed, output).details.metadata = Deref(heap, res).Metadata

\* The fields of a context a mutator is not meant to change.
OtherFields(d, name) ==
    [f \in DOMAIN d \
        (CASE name = "WithCategory" -> {"Category"}
           [] name = "WithSessionID" -> {"SessionID"}
           [] name \in {"WithTags", "WithoutTags"} -> {"Tags"}
           [] name \in {"WithMetadata", "WithoutMetadata"} -> {"Metadata"}) |-> d[f]]

\* C27: the context a mutator returns differs from the receiver in the
\* mutator's own field at most: WithCategory in the category, WithSessionID
\* in the session ID, WithTags and WithoutTags in the tags, WithMetadata and
\* WithoutMetadata in the metadata.
C27_MutatorChangesOwnFieldOnly ==
    [][op'.name \in MutatorNames =>
          OtherFields(Deref(heap', res'), op'.name) = OtherFields(Deref(heap, cur), op'.name)]_vars

\* WithTags changed the tags of a context that has a category, a session ID
\* and metadata.
C27_Witness ==
    /\ op.name = "WithTags"
    /\ Deref(heap, cur).Category = "api"
    /\ Deref(heap, cur).SessionID = "req-1"
    /\ DOMAIN Deref(heap, cur).Metadata # {}
    /\ Deref(heap, res).Tags # Deref(heap, cur).Tags
    /\ OtherFields(Deref(heap, res), "WithTags") = OtherFields(Deref(heap, cur), "WithTags")

\* The tags a context has: those whose entry in the Tags map is true.
TrueTags(h, lc) == {t \in DOMAIN h.tags[h.lc[lc].Tags] : h.tags[h.lc[lc].Tags][t]}

\* C28: details.tags of a line lists the tags t for which Tags[t] is true
\* and no other, for a context made from a caller's tag map too: a tag whose
\* entry is false or missing is not in the line, and a key is in the map
\* exactly when its value is true.
C28_EmittedTagsAreTrueTags ==
    op.name = "logWith" =>
        /\ (IF "tags" \in DOMAIN LastLine.details
            THEN Range(LastLine.details.tags) ELSE {}) = TrueTags(heap, res)
        /\ TagSet(heap, res) = TrueTags(heap, res)

====
